---- MODULE Spec2Model ----
(***************************************************************************)
(* Model of the pronunciation validator (services/validator.ts) and of the *)
(* transcription call it awaits (services/openai.ts).                      *)
(*                                                                         *)
(* A JavaScript string is modelled as a sequence of one-character strings, *)
(* so that split, trim, replace and charAt act on characters as the code   *)
(* does.  A number computed in floating point (the confidence) is modelled *)
(* as the exact fraction [num, den].                                       *)
(***************************************************************************)
EXTENDS Integers, Sequences, FiniteSets, TLC

(***************************************************************************)
(* Characters                                                              *)
(***************************************************************************)
UpperAscii == <<"A","B","C","D","E","F","G","H","I","J","K","L","M",
                "N","O","P","Q","R","S","T","U","V","W","X","Y","Z">>
LowerAscii == <<"a","b","c","d","e","f","g","h","i","j","k","l","m",
                "n","o","p","q","r","s","t","u","v","w","x","y","z">>
UpperAccent == <<"Á","É","Í","Ó","Ú","Ñ","Ü">>
LowerAccent == <<"á","é","í","ó","ú","ñ","ü">>
Digits == {"0","1","2","3","4","5","6","7","8","9"}

Range(f) == {f[i] : i \in DOMAIN f}

\* \w of a JavaScript regular expression without the u flag: [A-Za-z0-9_]
WordChars == Range(UpperAscii) \cup Range(LowerAscii) \cup Digits \cup {"_"}
IsWordChar(c) == c \in WordChars

\* \s of a JavaScript regular expression, and the characters trim() removes
SpaceChars == {" ", "\n", "\t"}
IsSpace(c) == c \in SpaceChars

\* [áéíóúñü] under the i flag
AccentChars == Range(LowerAccent) \cup Range(UpperAccent)
IsAccented(c) == c \in AccentChars

\* String.prototype.toLowerCase on one character
LowerChar(c) ==
  IF \E i \in DOMAIN UpperAscii : UpperAscii[i] = c
    THEN LowerAscii[CHOOSE i \in DOMAIN UpperAscii : UpperAscii[i] = c]
  ELSE IF \E i \in DOMAIN UpperAccent : UpperAccent[i] = c
    THEN LowerAccent[CHOOSE i \in DOMAIN UpperAccent : UpperAccent[i] = c]
  ELSE c

(***************************************************************************)
(* String primitives                                                       *)
(***************************************************************************)
toLowerCase(s) == [i \in 1..Len(s) |-> LowerChar(s[i])]

\* s.replace(/[^...]/g, ''): keep the characters of the class `keep`
Filter(s, keep) == SelectSeq(s, LAMBDA c : c \in keep)

\* s.replace(/\s+/g, ' '): of each run of whitespace the last character
\* becomes the space and the others go
CollapseSpaces(s) ==
  LET marked == [i \in 1..Len(s) |->
                   IF ~IsSpace(s[i]) THEN s[i]
                   ELSE IF i < Len(s) /\ IsSpace(s[i + 1]) THEN "" ELSE " "]
  IN SelectSeq(marked, LAMBDA c : c # "")

\* String.prototype.trim
trim(s) ==
  LET inked == SelectSeq([i \in 1..Len(s) |-> i], LAMBDA i : ~IsSpace(s[i]))
  IN IF inked = <<>> THEN <<>> ELSE SubSeq(s, inked[1], inked[Len(inked)])

\* s.split(sep) for a one-character separator: the pieces between the
\* separators, always at least one piece
split(s, sep) ==
  LET at == SelectSeq([i \in 1..Len(s) |-> i], LAMBDA i : s[i] = sep)
      cuts == <<0>> \o at \o <<Len(s) + 1>>
  IN [k \in 1..(Len(at) + 1) |-> SubSeq(s, cuts[k] + 1, cuts[k + 1] - 1)]

\* s.split(/\s+/): a run of whitespace is one separator; a leading or trailing
\* run leaves an empty first or last piece, and '' splits to ['']
splitSpaces(s) == split(CollapseSpaces(s), " ")

\* pieces.join(sep)
RECURSIVE join(_, _)
join(pieces, sep) ==
  IF pieces = <<>> THEN <<>>
  ELSE IF Len(pieces) = 1 THEN pieces[1]
  ELSE pieces[1] \o sep \o join(Tail(pieces), sep)

startsWith(s, c) == s # <<>> /\ s[1] = c
endsWith(s, c) == s # <<>> /\ s[Len(s)] = c

\* s.includes(pat), and a case-sensitive regular expression that is a literal
includes(s, pat) ==
  \E i \in 0..(Len(s) - Len(pat)) : SubSeq(s, i + 1, i + Len(pat)) = pat

Min(a, b) == IF a < b THEN a ELSE b
Max(a, b) == IF a > b THEN a ELSE b

(***************************************************************************)
(* levenshteinDistance, calculateSimilarity, normalizeText                 *)
(***************************************************************************)
\* Mutants of Cell: the substitution is forgotten; the cell above is taken
\* without its cost
CellWithoutSubstitution(same, diag, left, up) ==
  IF same THEN diag ELSE (IF left < up THEN left + 1 ELSE up + 1)

CellFreeUp(same, diag, left, up) ==
  IF same THEN diag
  ELSE (IF diag + 1 < left + 1
          THEN (IF diag + 1 < up THEN diag + 1 ELSE up)
          ELSE (IF left + 1 < up THEN left + 1 ELSE up))

\* Mutant of Cell: a substitution costs nothing
CellFreeSubstitution(same, diag, left, up) ==
  Min(Min(diag, left + 1), up + 1)

\* One cell of the matrix: matrix[i][j] from matrix[i-1][j-1] (diag),
\* matrix[i][j-1] (left) and matrix[i-1][j] (up)
Cell(same, diag, left, up) ==
  IF same THEN diag ELSE Min(Min(diag + 1, left + 1), up + 1)

\* The inner loop for j = lo..hi of row i: the cells are appended to row in the
\* order of the loop (row[k] holds matrix[i][k-1], prev is row i-1).  The
\* range is halved, and the first half is computed before the second is
\* entered, only to keep the evaluation shallow.
RECURSIVE FillRow(_, _, _, _, _, _)
FillRow(str1, ch, prev, row, lo, hi) ==
  IF lo > hi THEN row
  ELSE IF lo = hi
    THEN Append(row, Cell(ch = str1[lo], prev[lo], row[lo], prev[lo + 1]))
  ELSE LET mid == (lo + hi) \div 2
           left == FillRow(str1, ch, prev, row, lo, mid)
       IN IF Len(left) = mid + 1
            THEN FillRow(str1, ch, prev, left, mid + 1, hi)
            ELSE <<>>

\* The outer loop for i = lo..hi: the last row filled, from row lo-1 (prev)
RECURSIVE FillMatrix(_, _, _, _, _)
FillMatrix(str1, str2, prev, lo, hi) ==
  IF lo > hi THEN prev
  ELSE IF lo = hi
    THEN FillRow(str1, str2[lo], prev, <<lo>>, 1, Len(str1))
  ELSE LET mid == (lo + hi) \div 2
           upper == FillMatrix(str1, str2, prev, lo, mid)
       IN IF Len(upper) = Len(str1) + 1
            THEN FillMatrix(str1, str2, upper, mid + 1, hi)
            ELSE <<>>

levenshteinDistance(str1, str2) ==
  LET row0 == [k \in 1..(Len(str1) + 1) |-> k - 1]
  IN FillMatrix(str1, str2, row0, 1, Len(str2))[Len(str1) + 1]

\* Mutants of calculateSimilarity: two empty strings are no match; the
\* length of str1 stands for the longer length
calculateSimilarityEmptyZero(str1, str2) ==
  LET maxLength == IF Len(str1) > Len(str2) THEN Len(str1) ELSE Len(str2)
  IN IF maxLength = 0 THEN [num |-> 0, den |-> 1]
     ELSE [num |-> (maxLength - levenshteinDistance(str1, str2)) * 100,
           den |-> maxLength]

calculateSimilarityByFirst(str1, str2) ==
  LET maxLength == Len(str1)
  IN IF maxLength = 0 THEN [num |-> 100, den |-> 1]
     ELSE [num |-> (maxLength - levenshteinDistance(str1, str2)) * 100,
           den |-> maxLength]

\* The percentage as the exact fraction num / den
calculateSimilarity(str1, str2) ==
  LET maxLength == Max(Len(str1), Len(str2))
  IN IF maxLength = 0 THEN [num |-> 100, den |-> 1]
     ELSE [num |-> (maxLength - levenshteinDistance(str1, str2)) * 100,
           den |-> maxLength]

\* Mutants of normalizeText: trim is called first; toLowerCase is forgotten
normalizeTextTrimFirst(text) ==
  CollapseSpaces(Filter(trim(toLowerCase(text)), WordChars \cup SpaceChars))

normalizeTextNoLower(text) ==
  trim(CollapseSpaces(Filter(text, WordChars \cup SpaceChars)))

normalizeText(text) ==
  trim(CollapseSpaces(Filter(toLowerCase(text), WordChars \cup SpaceChars)))

(***************************************************************************)
(* extractCriticalWords                                                    *)
(***************************************************************************)
\* A section marker: the trimmed line starts with '[' and ends with ']'
IsSectionMarker(line) == startsWith(trim(line), "[") /\ endsWith(trim(line), "]")

\* word.replace(/[^\wáéíóúñü]/gi, '')
cleanWordOf(word) == Filter(word, WordChars \cup AccentChars)

\* /^[A-ZÁÉÍÓÚÑÜ]/
IsCapitalized(word) ==
  word # <<>> /\ word[1] \in Range(UpperAscii) \cup Range(UpperAccent)

\* /[áéíóúñü]/i
HasAccent(word) == \E i \in DOMAIN word : IsAccented(word[i])

\* The pattern list; j[aeiou] is written out as its five alternatives.  Every
\* pattern has the i flag, so it is searched in the lowercased word.
pronePatterns ==
  { <<"m","é","x","i">>, <<"g","u","e","r","r","e">>, <<"j","u","a","n">>,
    <<"j","o","s","é">>, <<"l","l">>, <<"ñ">>, <<"r","r">>,
    <<"j","a">>, <<"j","e">>, <<"j","i">>, <<"j","o">>, <<"j","u">> }

isMispronunciationProne(word) ==
  \E pattern \in pronePatterns : includes(toLowerCase(word), pattern)

\* Mutant of IsCriticalWord: words of two characters are taken too
IsCriticalWordAtLeastTwo(cleanWord) ==
  /\ Len(cleanWord) >= 2
  /\ \/ IsCapitalized(cleanWord)
     \/ HasAccent(cleanWord)
     \/ isMispronunciationProne(cleanWord)

IsCriticalWord(cleanWord) ==
  /\ Len(cleanWord) > 2
  /\ \/ IsCapitalized(cleanWord)
     \/ HasAccent(cleanWord)
     \/ isMispronunciationProne(cleanWord)

\* The critical words of one line, in order (the inner for loop)
RECURSIVE CriticalOfWords(_)
CriticalOfWords(words) ==
  IF words = <<>> THEN <<>>
  ELSE (IF IsCriticalWord(cleanWordOf(Head(words)))
          THEN <<cleanWordOf(Head(words))>> ELSE <<>>)
       \o CriticalOfWords(Tail(words))

\* The outer for loop: section markers are skipped
RECURSIVE CriticalOfLines(_)
CriticalOfLines(lines) ==
  IF lines = <<>> THEN <<>>
  ELSE (IF IsSectionMarker(Head(lines)) THEN <<>>
        ELSE CriticalOfWords(splitSpaces(Head(lines))))
       \o CriticalOfLines(Tail(lines))

\* Mutant of Dedup: the duplicates stay
DedupNone(list, seen) == list

\* [...new Set(list)]: the first occurrence of each element, in order
RECURSIVE Dedup(_, _)
Dedup(list, seen) ==
  IF list = <<>> THEN <<>>
  ELSE IF Head(list) \in seen THEN Dedup(Tail(list), seen)
  ELSE <<Head(list)>> \o Dedup(Tail(list), seen \cup {Head(list)})

extractCriticalWords(lyrics) == Dedup(CriticalOfLines(split(lyrics, "\n")), {})

(***************************************************************************)
(* validateAudio: the part that runs once the transcription has arrived    *)
(***************************************************************************)
\* \b at offset p of text (between text[p] and text[p+1])
IsWordBoundary(text, p) ==
  (p > 0 /\ IsWordChar(text[p])) # (p < Len(text) /\ IsWordChar(text[p + 1]))

\* new RegExp(`\\b${normalizedWord}\\b`, 'i').test(text).  A normalized word is
\* made of [a-z0-9_] only, so it is a literal of the pattern, and the text is
\* lowercase already.
wordRegexTest(normalizedWord, text) ==
  \E p \in 0..(Len(text) - Len(normalizedWord)) :
    /\ IsWordBoundary(text, p)
    /\ SubSeq(text, p + 1, p + Len(normalizedWord)) = normalizedWord
    /\ IsWordBoundary(text, p + Len(normalizedWord))

\* minDistance is <<>> while it is Infinity, and <<d>> once it is the number d
Infinity == <<>>
NotFound == <<"(","n","o","t"," ","f","o","u","n","d",")">>

\* Mutant of IsCloser: the bound of half the word's length is left out
IsCloserNoThreshold(distance, minDistance, normalizedWord) ==
  minDistance = Infinity \/ distance < minDistance[1]

\* distance < minDistance && distance < normalizedWord.length * 0.5
IsCloser(distance, minDistance, normalizedWord) ==
  /\ (minDistance = Infinity \/ distance < minDistance[1])
  /\ 2 * distance < Len(normalizedWord)

\* The loop over the transcribed words, from (closestMatch, minDistance)
RECURSIVE ClosestMatch(_, _, _, _)
ClosestMatch(normalizedWord, words, closestMatch, minDistance) ==
  IF words = <<>> THEN closestMatch
  ELSE LET distance == levenshteinDistance(normalizedWord, Head(words))
       IN IF IsCloser(distance, minDistance, normalizedWord)
            THEN ClosestMatch(normalizedWord, Tail(words), Head(words), <<distance>>)
            ELSE ClosestMatch(normalizedWord, Tail(words), closestMatch, minDistance)

\* Mutant of ErrorFor: the normalized word is recorded instead of the word
ErrorForNormalized(word, normalizedTranscription) ==
  [word |-> normalizeText(word), expected |-> word, got |-> NotFound]

\* The error pushed for one critical word
ErrorFor(word, normalizedTranscription) ==
  LET closestMatch == ClosestMatch(normalizeText(word),
                                   splitSpaces(normalizedTranscription), <<>>, Infinity)
  IN [word |-> word, expected |-> word,
      got |-> IF closestMatch # <<>> THEN closestMatch ELSE NotFound]

\* Mutant of WordMissing: the word is searched as it stands in the lyrics
WordMissingRaw(word, normalizedTranscription) ==
  ~wordRegexTest(word, normalizedTranscription)

\* Whether the loop body pushes an error for the word
WordMissing(word, normalizedTranscription) ==
  ~wordRegexTest(normalizeText(word), normalizedTranscription)

RECURSIVE CheckWords(_, _)
CheckWords(criticalWords, normalizedTranscription) ==
  IF criticalWords = <<>> THEN <<>>
  ELSE (IF WordMissing(Head(criticalWords), normalizedTranscription)
          THEN <<ErrorFor(Head(criticalWords), normalizedTranscription)>>
          ELSE <<>>)
       \o CheckWords(Tail(criticalWords), normalizedTranscription)

ConfidenceThreshold == 85

\* Mutant of IsValid: confidence >= 85
IsValidAtLeast(errors, confidence) ==
  errors = <<>> /\ confidence.num >= ConfidenceThreshold * confidence.den

\* errors.length === 0 && confidence > 85
IsValid(errors, confidence) ==
  errors = <<>> /\ confidence.num > ConfidenceThreshold * confidence.den

\* The object validateAudio returns for a transcription text
\* Mutant of ValidationResultOf: the confidence is computed on the lines that
\* are no section markers
ValidationResultOfContent(groundTruthLyrics, text) ==
  LET criticalWords == extractCriticalWords(groundTruthLyrics)
      content == SelectSeq(split(groundTruthLyrics, "\n"),
                           LAMBDA line : ~IsSectionMarker(line))
      normalizedGroundTruth == normalizeText(join(content, <<"\n">>))
      normalizedTranscription == normalizeText(text)
      confidence == calculateSimilarity(normalizedGroundTruth, normalizedTranscription)
      errors == CheckWords(criticalWords, normalizedTranscription)
  IN [valid |-> IsValid(errors, confidence),
      errors |-> errors,
      confidence |-> confidence,
      transcription |-> text]

ValidationResultOf(groundTruthLyrics, text) ==
  LET criticalWords == extractCriticalWords(groundTruthLyrics)
      normalizedGroundTruth == normalizeText(groundTruthLyrics)
      normalizedTranscription == normalizeText(text)
      confidence == calculateSimilarity(normalizedGroundTruth, normalizedTranscription)
      errors == CheckWords(criticalWords, normalizedTranscription)
  IN [valid |-> IsValid(errors, confidence),
      errors |-> errors,
      confidence |-> confidence,
      transcription |-> text]

(***************************************************************************)
(* findRollbackPoint, extractRemainingLyrics                               *)
(***************************************************************************)
\* The optional errorPosition is <<>> when it is undefined, and <<p>> for the
\* number p
Undefined == <<>>

\* Mutant of DefaultSection: the default label is lowercased like the others
DefaultSectionLower == <<"i","n","t","r","o">>

DefaultSection == <<"I","n","t","r","o">>
VerseLabel == <<"v","e","r","s","e">>
ChorusLabel == <<"c","h","o","r","u","s">>

\* line.slice(1, -1).toLowerCase() of a trimmed marker line
SectionOf(line) == toLowerCase(SubSeq(line, 2, Len(line) - 1))

\* Mutants of IsRollbackSection: chorus markers are forgotten; every marker
\* is taken
IsRollbackSectionVerseOnly(section) == includes(section, VerseLabel)

IsRollbackSectionAny(section) == Len(section) >= 0

\* section.includes('verse') || section.includes('chorus')
IsRollbackSection(section) ==
  includes(section, VerseLabel) \/ includes(section, ChorusLabel)

\* errorPosition && i > errorPosition: undefined and 0 are falsy
PastError(errorPosition, i) ==
  /\ errorPosition # Undefined
  /\ errorPosition[1] # 0
  /\ i > errorPosition[1]

\* The for loop from index i (zero-based; lines[i] of the code is lines[i + 1])
RECURSIVE ScanLines(_, _, _, _, _)
ScanLines(lines, errorPosition, i, lastSectionLine, lastSection) ==
  IF i >= Len(lines) THEN [section |-> lastSection, line |-> lastSectionLine]
  ELSE LET line == trim(lines[i + 1])
       IN IF startsWith(line, "[") /\ endsWith(line, "]")
            THEN LET section == SectionOf(line)
                     hit == IsRollbackSection(section)
                     newLine == IF hit THEN i ELSE lastSectionLine
                     newSection == IF hit THEN section ELSE lastSection
                 IN IF PastError(errorPosition, i)
                      THEN [section |-> newSection, line |-> newLine]
                      ELSE ScanLines(lines, errorPosition, i + 1, newLine, newSection)
            ELSE ScanLines(lines, errorPosition, i + 1, lastSectionLine, lastSection)

findRollbackPoint(lyrics, errorPosition) ==
  ScanLines(split(lyrics, "\n"), errorPosition, 0, 0, DefaultSection)

\* Mutant of extractRemainingLyrics: the slice starts after fromLine
extractRemainingLyricsAfter(lyrics, fromLine) ==
  LET lines == split(lyrics, "\n")
  IN join(SubSeq(lines, fromLine + 2, Len(lines)), <<"\n">>)

\* lines.slice(fromLine) for fromLine >= 0
extractRemainingLyrics(lyrics, fromLine) ==
  LET lines == split(lyrics, "\n")
  IN join(SubSeq(lines, fromLine + 1, Len(lines)), <<"\n">>)

(***************************************************************************)
(* Inputs                                                                  *)
(***************************************************************************)
MaxLyricLines == 2
MaxPhrases == 2
MaxRollbackLines == 4

\* The sequences of at most n elements of pool
SeqsUpTo(pool, n) == UNION {[1..k -> pool] : k \in 0..n}

LineVerse1 == <<"[","V","e","r","s","e"," ","1","]">>
LineGuadalajara == <<"G","u","a","d","a","l","a","j","a","r","a">>
LineAccents == <<"M","é","x","i","c","o"," ","é","é","é">>
LineCaminamos == <<"c","a","m","i","n","a","m","o","s"," ",
                   "t","r","a","n","q","u","i","l","o","s">>

\* The lines lyrics are made of: a section marker, a proper noun, an accented
\* proper noun followed by a word that normalizeText empties
LyricLinePool == {LineVerse1, LineGuadalajara, LineAccents}

\* The lyrics of at most MaxLyricLines lines of the pool, and one line of
\* twenty characters with no critical word (for a confidence of exactly 85)
LyricsInputs ==
  {join(ls, <<"\n">>) : ls \in SeqsUpTo(LyricLinePool, MaxLyricLines)}
    \cup {LineCaminamos}

PhraseExact == <<"G","u","a","d","a","l","a","j","a","r","a",".">>
PhraseClose == <<"G","u","a","d","a","l","a","h","a","r","a">>
PhraseHola == <<"h","o","l","a">>
PhraseFar == <<"k","a","m","i","n","a","m","o","s"," ",
               "t","r","a","n","k","i","l","o","s">>

PhrasePool == {PhraseExact, PhraseClose, PhraseHola}

\* What the transcription returns: at most MaxPhrases phrases of the pool
\* joined by spaces, and the text at distance 3 from LineCaminamos
TextInputs ==
  {join(ps, <<" ">>) : ps \in SeqsUpTo(PhrasePool, MaxPhrases)} \cup {PhraseFar}

\* Two concurrent invocations draw from two lyrics and two texts
ConcurrentLyrics == {LineGuadalajara, LineCaminamos}
ConcurrentTexts == {PhraseExact, PhraseFar}

LineIntro == <<"[","I","n","t","r","o","]">>
LineHola == <<"h","o","l","a">>
LineChorus == <<" ","[","C","H","O","R","U","S","]"," ">>
LineMundo == <<"m","u","n","d","o">>
LineFin == <<"f","i","n">>

RollbackLinePool == {LineIntro, LineHola, LineVerse1, LineChorus}

\* [Intro] / hola / [Verse 1] / mundo / [Chorus] / fin
ExampleLyrics ==
  join(<<LineIntro, LineHola, LineVerse1, LineMundo,
         <<"[","C","h","o","r","u","s","]">>, LineFin>>, <<"\n">>)

RollbackLyrics ==
  {join(ls, <<"\n">>) : ls \in SeqsUpTo(RollbackLinePool, MaxRollbackLines)}
    \cup {ExampleLyrics}

ErrorPositions == {Undefined} \cup {<<p>> : p \in 0..MaxRollbackLines}

(***************************************************************************)
(* State                                                                   *)
(***************************************************************************)
Calls == {1, 2}

\* The pure functions of the module, and the state in which none was called
Functions ==
  {"levenshteinDistance", "calculateSimilarity", "normalizeText",
   "extractCriticalWords", "extractRemainingLyrics"}

NotEvaluated == [fn \in Functions |-> <<>>]

VARIABLES
  pc,              \* where each validateAudio invocation stands
  lyricsOf,        \* its groundTruthLyrics argument
  getPromise,      \* the axios.get of transcribeAudio (the audio download)
  postPromise,     \* the axios.post of transcribeAudio (the transcription)
  transcribeCalls, \* how often it has called openaiService.transcribeAudio
  returned,        \* <<>>, or <<the ValidationResult it resolved with>>
  thrown,          \* <<>>, or <<the error it rejected with>>
  rollback,        \* <<>>, or <<the findRollbackPoint call and its result>>
  evaluated,       \* per pure function <<>>, or <<a call of it and its result>>
  poll,            \* the invocation of pollUntilComplete (services/suno.ts)
  gen              \* the generation run of GenerationControl (handleGenerate)

vars == <<pc, lyricsOf, getPromise, postPromise, transcribeCalls, returned,
          thrown, rollback, evaluated, poll, gen>>

validateVars == <<pc, lyricsOf, getPromise, postPromise, transcribeCalls,
                  returned, thrown>>

NoPromise == [state |-> "none", hasText |-> FALSE, text |-> <<>>, error |-> ""]
Pending == [NoPromise EXCEPT !.state = "pending"]
Fulfilled(hasText, text) ==
  [state |-> "fulfilled", hasText |-> hasText, text |-> text, error |-> ""]
Rejected(error) == [NoPromise EXCEPT !.state = "rejected", !.error = error]

\* A details object: its status, and the number of the poll that fetched it
NoDetails == [status |-> <<>>, poll |-> 0]

\* pollUntilComplete before it is called: its position, the parameter
\* maxAttempts, the loop counter i, the calls of getDetailsFn so far, the
\* promise of the call it awaits, the details it holds, and what it returned
\* (<<>> or <<details>>) or threw (<<>> or <<message>>)
NotPolling ==
  [pc |-> "idle", maxAttempts |-> 0, i |-> 0, calls |-> 0, promise |-> "none",
   details |-> NoDetails, returned |-> <<>>, thrown |-> <<>>]

\* No URL: undefined, null or the empty string, all falsy
NoUrl == 0

\* The details of a poll of the generation run before any is answered
NoMusicDetails == [status |-> <<>>, streamAudioUrl |-> NoUrl, audioUrl |-> NoUrl]

\* GenerationControl before handleGenerate runs: its position, the mode, the
\* promise it awaits, the loop counter, the calls of getMusicDetails, the
\* details of the latest poll, the two locals of the loop, the calls of
\* onGenerationComplete, the generations saveGeneration stored, and the
\* component's progress, error and isGenerating state
NotGenerating ==
  [pc |-> "idle", mode |-> "custom", promise |-> "none", attempt |-> 0,
   polls |-> 0, details |-> NoMusicDetails,
   streamingAudioDelivered |-> FALSE, finalAudioUrl |-> NoUrl,
   delivered |-> <<>>, saved |-> <<>>, progress |-> "", error |-> <<>>,
   isGenerating |-> FALSE]

Init ==
  /\ pc = [c \in Calls |-> "idle"]
  /\ lyricsOf = [c \in Calls |-> <<>>]
  /\ getPromise = [c \in Calls |-> NoPromise]
  /\ postPromise = [c \in Calls |-> NoPromise]
  /\ transcribeCalls = [c \in Calls |-> 0]
  /\ returned = [c \in Calls |-> <<>>]
  /\ thrown = [c \in Calls |-> <<>>]
  /\ rollback = <<>>
  /\ evaluated = NotEvaluated
  /\ poll = NotPolling
  /\ gen = NotGenerating

(***************************************************************************)
(* validateAudio and the transcribeAudio it awaits                         *)
(***************************************************************************)
\* validateAudio(audioUrl, groundTruthLyrics) is called: it calls
\* transcribeAudio, which issues the download and suspends
ValidateAudio(c, groundTruthLyrics) ==
  /\ pc[c] = "idle"
  /\ pc' = [pc EXCEPT ![c] = "awaitGet"]
  /\ lyricsOf' = [lyricsOf EXCEPT ![c] = groundTruthLyrics]
  /\ transcribeCalls' = [transcribeCalls EXCEPT ![c] = @ + 1]
  /\ getPromise' = [getPromise EXCEPT ![c] = Pending]
  /\ UNCHANGED <<postPromise, returned, thrown, rollback, evaluated, poll, gen>>

\* The network settles the download: the audio arrives, or the request fails
GetSettles(c, ok) ==
  /\ getPromise[c] = Pending
  /\ getPromise' = [getPromise EXCEPT ![c] =
                      IF ok THEN Fulfilled(FALSE, <<>>) ELSE Rejected("GetFailed")]
  /\ UNCHANGED <<pc, lyricsOf, postPromise, transcribeCalls, returned, thrown,
                 rollback, evaluated, poll, gen>>

\* Mutant of Rethrow: the catch block returns a verdict that is not valid
ReturnDegraded(c, error) ==
  /\ pc' = [pc EXCEPT ![c] = "returned"]
  /\ returned' = [returned EXCEPT ![c] =
                    <<[valid |-> FALSE, errors |-> <<>>,
                       confidence |-> [num |-> 0, den |-> 1],
                       transcription |-> <<>>]>>]
  /\ UNCHANGED thrown

\* validateAudio's catch block: console.error, then throw error
Rethrow(c, error) ==
  /\ pc' = [pc EXCEPT ![c] = "thrown"]
  /\ thrown' = [thrown EXCEPT ![c] = <<error>>]
  /\ UNCHANGED returned

\* transcribeAudio resumes after the download: it posts the audio, or its
\* rejection reaches validateAudio's await
ResumeAfterGet(c) ==
  /\ pc[c] = "awaitGet"
  /\ getPromise[c].state \in {"fulfilled", "rejected"}
  /\ IF getPromise[c].state = "fulfilled"
       THEN /\ pc' = [pc EXCEPT ![c] = "awaitPost"]
            /\ postPromise' = [postPromise EXCEPT ![c] = Pending]
            /\ UNCHANGED <<returned, thrown>>
       ELSE /\ Rethrow(c, getPromise[c].error)
            /\ UNCHANGED postPromise
  /\ UNCHANGED <<lyricsOf, getPromise, transcribeCalls, rollback, evaluated, poll, gen>>

\* The transcription service settles the post: a body with a text, a body
\* without one, or a failure
PostSettles(c, outcome) ==
  /\ postPromise[c] = Pending
  /\ postPromise' = [postPromise EXCEPT ![c] = outcome]
  /\ UNCHANGED <<pc, lyricsOf, getPromise, transcribeCalls, returned, thrown,
                 rollback, evaluated, poll, gen>>

PostOutcomes(texts) ==
  {Fulfilled(TRUE, t) : t \in texts}
    \cup {Fulfilled(FALSE, <<>>), Rejected("PostFailed")}

\* Mutant of TranscriptionOf: the transcription is kept in one place for all
\* invocations, and the latest one is read
TranscriptionOfShared(c) ==
  LET arrived == {d \in Calls : postPromise[d].state = "fulfilled" /\ postPromise[d].hasText}
  IN IF arrived = {} THEN postPromise[c]
     ELSE postPromise[CHOOSE d \in arrived : \A e \in arrived : e <= d]

\* The transcription validateAudio's await yields for invocation c
TranscriptionOf(c) == postPromise[c]

\* transcribeAudio returns {text, segments} and validateAudio runs to its
\* return; normalizeText(undefined) throws a TypeError inside the try block
ResumeAfterPost(c) ==
  /\ pc[c] = "awaitPost"
  /\ postPromise[c].state \in {"fulfilled", "rejected"}
  /\ LET transcription == TranscriptionOf(c)
     IN IF transcription.state = "rejected"
          THEN Rethrow(c, transcription.error)
        ELSE IF ~transcription.hasText
          THEN Rethrow(c, "TypeError")
        ELSE /\ pc' = [pc EXCEPT ![c] = "returned"]
             /\ returned' = [returned EXCEPT ![c] =
                               <<ValidationResultOf(lyricsOf[c], transcription.text)>>]
             /\ UNCHANGED thrown
  /\ UNCHANGED <<lyricsOf, getPromise, postPromise, transcribeCalls, rollback, evaluated, poll, gen>>

\* One invocation at a time
Next ==
  \/ \E l \in LyricsInputs : ValidateAudio(1, l)
  \/ \E ok \in BOOLEAN : GetSettles(1, ok)
  \/ ResumeAfterGet(1)
  \/ \E o \in PostOutcomes(TextInputs) : PostSettles(1, o)
  \/ ResumeAfterPost(1)

Spec == Init /\ [][Next]_vars

\* The event loop runs a continuation whose promise has settled; nothing
\* obliges the network to settle a request
FairSpec ==
  Spec /\ WF_vars(ResumeAfterGet(1)) /\ WF_vars(ResumeAfterPost(1))

\* Two invocations, interleaved at their awaits
NextConcurrent ==
  \E c \in Calls :
    \/ \E l \in ConcurrentLyrics : ValidateAudio(c, l)
    \/ \E ok \in BOOLEAN : GetSettles(c, ok)
    \/ ResumeAfterGet(c)
    \/ \E o \in PostOutcomes(ConcurrentTexts) : PostSettles(c, o)
    \/ ResumeAfterPost(c)

SpecConcurrent == Init /\ [][NextConcurrent]_vars

(***************************************************************************)
(* Calls of findRollbackPoint                                              *)
(***************************************************************************)
FindRollbackPoint(lyrics, errorPosition) ==
  /\ rollback = <<>>
  /\ rollback' = <<[lyrics |-> lyrics, errorPosition |-> errorPosition,
                    result |-> findRollbackPoint(lyrics, errorPosition)]>>
  /\ UNCHANGED <<validateVars, evaluated, poll, gen>>

NextRollback ==
  \E l \in RollbackLyrics, p \in ErrorPositions : FindRollbackPoint(l, p)

SpecRollback == Init /\ [][NextRollback]_vars

(***************************************************************************)
(* Calls of the pure functions                                             *)
(***************************************************************************)
MaxDistanceLen == 3
MaxTextLen == 3
MaxExtractLines == 2
MaxRemainingLines == 3

Kitten == <<"k","i","t","t","e","n">>
Sitting == <<"s","i","t","t","i","n","g">>
Hello == <<"h","e","l","l","o">>

\* The strings of at most MaxDistanceLen characters over two letters
DistanceStrings == SeqsUpTo({"a", "b"}, MaxDistanceLen)

\* The arguments of levenshteinDistance and calculateSimilarity
DistancePairs ==
  (DistanceStrings \X DistanceStrings)
    \cup {<<Kitten, Sitting>>, <<Sitting, Kitten>>, <<Hello, <<>>>>,
          <<<<>>, Hello>>, <<Hello, Hello>>}

HelloWorld == <<"H","e","l","l","o",","," ","w","o","r","l","d","!">>
Mexico == <<"M","é","x","i","c","o">>

\* The arguments of normalizeText: an uppercase letter, a lowercase letter, an
\* accented uppercase letter, a punctuation mark, a digit, the underscore, a
\* space and a line break
NormalizeInputs ==
  SeqsUpTo({"A", "b", "É", "!", "1", "_", " ", "\n"}, MaxTextLen)
    \cup {HelloWorld, Mexico}

LineAna == <<"A","n","a"," "," ","v","i","l","l","a",",">>
LineSol == <<"s","o","l"," ","A","n","a"," ","e","l">>
LineEl == <<"é","l"," ","m","á","s"," ","v","i","l","l","a">>
LineDigits == <<"A","b","1"," ","s","o","l","_","2"," ","1","A","n","a">>

ExtractLinePool ==
  {LineVerse1, LineChorus, LineAna, LineSol, LineEl, LineDigits}

\* The arguments of extractCriticalWords
ExtractInputs ==
  {join(ls, <<"\n">>) : ls \in SeqsUpTo(ExtractLinePool, MaxExtractLines)}

\* The arguments of extractRemainingLyrics: lines that are empty, a word or a
\* marker, and a fromLine up to one past the number of lines
RemainingLyrics ==
  {join(ls, <<"\n">>) :
     ls \in SeqsUpTo({<<>>, <<"a">>, <<"[","b","]">>}, MaxRemainingLines)}

FromLines == 0..(MaxRemainingLines + 1)

Evaluate(fn, args, result) ==
  /\ evaluated = NotEvaluated
  /\ evaluated' = [evaluated EXCEPT ![fn] = <<[args |-> args, result |-> result]>>]
  /\ UNCHANGED <<validateVars, rollback, poll, gen>>

LevenshteinDistance(str1, str2) ==
  Evaluate("levenshteinDistance", <<str1, str2>>, levenshteinDistance(str1, str2))

CalculateSimilarity(str1, str2) ==
  Evaluate("calculateSimilarity", <<str1, str2>>, calculateSimilarity(str1, str2))

NormalizeText(text) ==
  Evaluate("normalizeText", <<text>>, normalizeText(text))

ExtractCriticalWords(lyrics) ==
  Evaluate("extractCriticalWords", <<lyrics>>, extractCriticalWords(lyrics))

ExtractRemainingLyrics(lyrics, fromLine) ==
  Evaluate("extractRemainingLyrics", <<lyrics, fromLine>>,
           extractRemainingLyrics(lyrics, fromLine))

NextFunctions ==
  \/ \E pair \in DistancePairs : LevenshteinDistance(pair[1], pair[2])
  \/ \E pair \in DistancePairs : CalculateSimilarity(pair[1], pair[2])
  \/ \E text \in NormalizeInputs : NormalizeText(text)
  \/ \E lyrics \in ExtractInputs : ExtractCriticalWords(lyrics)
  \/ \E lyrics \in RemainingLyrics, fromLine \in FromLines :
       ExtractRemainingLyrics(lyrics, fromLine)

SpecFunctions == Init /\ [][NextFunctions]_vars

(***************************************************************************)
(* pollUntilComplete (services/suno.ts)                                    *)
(***************************************************************************)
MaxPollAttempts == 2
DefaultMaxAttempts == 60

\* GenerationStatus (types/index.ts)
StatusPending == <<"P","E","N","D","I","N","G">>
StatusTextSuccess == <<"T","E","X","T","_","S","U","C","C","E","S","S">>
StatusFirstSuccess == <<"F","I","R","S","T","_","S","U","C","C","E","S","S">>
StatusSuccess == <<"S","U","C","C","E","S","S">>
StatusCreateTaskFailed == <<"C","R","E","A","T","E","_","T","A","S","K","_","F","A","I","L","E","D">>
StatusGenerateAudioFailed == <<"G","E","N","E","R","A","T","E","_","A","U","D","I","O","_","F","A","I","L","E","D">>
StatusCallbackException == <<"C","A","L","L","B","A","C","K","_","E","X","C","E","P","T","I","O","N">>
StatusSensitiveWordError == <<"S","E","N","S","I","T","I","V","E","_","W","O","R","D","_","E","R","R","O","R">>

GenerationStatus ==
  {StatusPending, StatusTextSuccess, StatusFirstSuccess, StatusSuccess,
   StatusCreateTaskFailed, StatusGenerateAudioFailed, StatusCallbackException,
   StatusSensitiveWordError}

\* The statuses pollUntilComplete compares with
StatusComplete == <<"c","o","m","p","l","e","t","e">>
StatusCompleted == <<"c","o","m","p","l","e","t","e","d">>
StatusError == <<"e","r","r","o","r">>

\* What a poll may report: a GenerationStatus, a status in another case, or
\* one of the statuses pollUntilComplete compares with
PollStatuses ==
  GenerationStatus
    \cup {<<"s","u","c","c","e","s","s">>, <<"S","u","c","c","e","s","s">>, StatusComplete, StatusCompleted,
          StatusError}

\* The maxAttempts argument: left out (<<>>), or a number
MaxAttemptsInputs == {<<>>} \cup {<<n>> : n \in 0..MaxPollAttempts}

\* A number in a template literal: its decimal digits
RECURSIVE DecimalOf(_)
DecimalOf(n) ==
  LET digit == <<"0","1","2","3","4","5","6","7","8","9">>[(n % 10) + 1]
  IN IF n < 10 THEN <<digit>> ELSE Append(DecimalOf(n \div 10), digit)

\* `Generation timeout after ${maxAttempts} attempts`
TimeoutMessage(maxAttempts) ==
  <<"G","e","n","e","r","a","t","i","o","n"," ","t","i","m","e","o","u","t"," ","a","f","t","e","r"," ">> \o DecimalOf(maxAttempts)
    \o <<" ","a","t","t","e","m","p","t","s">>

FailedMessage == <<"G","e","n","e","r","a","t","i","o","n"," ","f","a","i","l","e","d"," ","w","i","t","h"," ","e","r","r","o","r"," ","s","t","a","t","u","s">>
DetailsFailedMessage == <<"F","a","i","l","e","d"," ","t","o"," ","g","e","t"," ","m","u","s","i","c"," ","d","e","t","a","i","l","s">>

\* The head of the for loop with counter i: the next call of getDetailsFn, or
\* the throw after the loop
PollLoop(p, i) ==
  IF i < p.maxAttempts
    THEN [p EXCEPT !.pc = "awaitDetails", !.i = i, !.calls = @ + 1,
                   !.promise = "pending"]
    ELSE [p EXCEPT !.pc = "thrown", !.i = i, !.promise = "none",
                   !.thrown = <<TimeoutMessage(p.maxAttempts)>>]

\* pollUntilComplete(getDetailsFn, maxAttempts) is called; maxAttempts
\* defaults to 60
PollUntilComplete(maxAttempts) ==
  /\ poll.pc = "idle"
  /\ poll' = PollLoop([poll EXCEPT !.maxAttempts =
                         IF maxAttempts = <<>> THEN DefaultMaxAttempts
                         ELSE maxAttempts[1]], 0)
  /\ UNCHANGED <<validateVars, rollback, evaluated, gen>>

\* The request of getDetailsFn is answered with details of some status
DetailsArrive(status) ==
  /\ poll.pc = "awaitDetails"
  /\ poll.promise = "pending"
  /\ poll' = [poll EXCEPT !.promise = "fulfilled",
                          !.details = [status |-> status, poll |-> poll.calls]]
  /\ UNCHANGED <<validateVars, rollback, evaluated, gen>>

\* The request of getDetailsFn fails, or its response code is not 200
DetailsFail ==
  /\ poll.pc = "awaitDetails"
  /\ poll.promise = "pending"
  /\ poll' = [poll EXCEPT !.promise = "rejected"]
  /\ UNCHANGED <<validateVars, rollback, evaluated, gen>>

\* details.status === 'complete' || details.status === 'completed'
PollEnds(status) == status \in {StatusComplete, StatusCompleted}

\* details.status === 'error'
PollFails(status) == status = StatusError

\* pollUntilComplete resumes after await getDetailsFn(): it returns the
\* details, throws, or starts the timer
ResumeAfterDetails ==
  /\ poll.pc = "awaitDetails"
  /\ poll.promise \in {"fulfilled", "rejected"}
  /\ poll' =
       IF poll.promise = "rejected"
         THEN [poll EXCEPT !.pc = "thrown", !.promise = "none",
                           !.thrown = <<DetailsFailedMessage>>]
       ELSE IF PollEnds(poll.details.status)
         THEN [poll EXCEPT !.pc = "returned", !.promise = "none",
                           !.returned = <<poll.details>>]
       ELSE IF PollFails(poll.details.status)
         THEN [poll EXCEPT !.pc = "thrown", !.promise = "none",
                           !.thrown = <<FailedMessage>>]
       ELSE [poll EXCEPT !.pc = "awaitTimer", !.promise = "none"]
  /\ UNCHANGED <<validateVars, rollback, evaluated, gen>>

\* Mutant of TimerFires: the loop counter is not advanced
TimerFiresWithoutCount ==
  /\ poll.pc = "awaitTimer"
  /\ poll' = PollLoop(poll, poll.i)
  /\ UNCHANGED <<validateVars, rollback, evaluated, gen>>

\* The setTimeout of the interval fires and the loop goes on with i++
TimerFires ==
  /\ poll.pc = "awaitTimer"
  /\ poll' = PollLoop(poll, poll.i + 1)
  /\ UNCHANGED <<validateVars, rollback, evaluated, gen>>

NextPoll ==
  \/ \E maxAttempts \in MaxAttemptsInputs : PollUntilComplete(maxAttempts)
  \/ \E status \in PollStatuses : DetailsArrive(status)
  \/ DetailsFail
  \/ ResumeAfterDetails
  \/ TimerFires

SpecPoll == Init /\ [][NextPoll]_vars

\* The event loop runs the continuations and the timers, and every poll is
\* answered
FairSpecPoll ==
  /\ SpecPoll
  /\ WF_vars(\E status \in PollStatuses : DetailsArrive(status))
  /\ WF_vars(ResumeAfterDetails)
  /\ WF_vars(TimerFires)

(***************************************************************************)
(* GenerationControl.handleGenerate (components/GenerationControl.tsx)     *)
(***************************************************************************)
MaxUrls == 2
GenerationAttempts == 60

\* The URLs a poll may carry
Urls == 1..MaxUrls

\* enhancedLyrics and referenceAudioUrl as handleGenerate sees them
EnhancedLyricsInputs == {<<>>, <<" ">>, Hello}
ReferenceAudioInputs == {<<>>, <<" ">>, <<"u">>}
Modes == {"custom", "remix"}

\* What a failed request is rejected with: the error of getMusicDetails, or
\* the error of the HTTP client
RejectionMessages == {DetailsFailedMessage, <<"N","e","t","w","o","r","k"," ","E","r","r","o","r">>}

\* const canGenerate = enhancedLyrics.trim().length > 0
canGenerate(enhancedLyrics) == Len(trim(enhancedLyrics)) > 0

\* const canUseRemix = referenceAudioUrl && referenceAudioUrl.trim().length > 0
canUseRemix(referenceAudioUrl) ==
  referenceAudioUrl # <<>> /\ Len(trim(referenceAudioUrl)) > 0

\* The catch block: the error is shown, progress is cleared
Caught(g, message) ==
  [g EXCEPT !.pc = "failed", !.promise = "none",
            !.error = <<"G","e","n","e","r","a","t","i","o","n"," ","f","a","i","l","e","d",":"," ">> \o message,
            !.isGenerating = FALSE, !.progress = ""]

\* Mutant of AfterLoop: the run completes whether or not it got audio
AfterLoopWithoutVerify(g) ==
  [g EXCEPT !.pc = "complete", !.promise = "none",
            !.progress = "Generation complete!"]

\* After the loop: "Verify we got some audio"
AfterLoop(g) ==
  IF ~g.streamingAudioDelivered /\ g.finalAudioUrl = NoUrl
    THEN Caught(g, <<"G","e","n","e","r","a","t","i","o","n"," ","t","i","m","e","o","u","t",":"," ","n","o"," ","a","u","d","i","o"," ","U","R","L"," ","r","e","c","e","i","v","e","d"," ","a","f","t","e","r"," ","5"," ","m","i","n","u","t","e","s">>)
    ELSE [g EXCEPT !.pc = "complete", !.promise = "none",
                   !.progress = "Generation complete!"]

\* The head of the for loop with counter attempt: the next call of
\* getMusicDetails, or the end of the loop
GenerationLoop(g, attempt) ==
  IF attempt < GenerationAttempts
    THEN [g EXCEPT !.pc = "awaitDetails", !.attempt = attempt,
                   !.polls = @ + 1, !.promise = "pending",
                   !.details = NoMusicDetails]
    ELSE AfterLoop([g EXCEPT !.attempt = attempt])

\* details.status.includes('FAILED') || details.status.includes('ERROR')
IsFailed(status) ==
  includes(status, <<"F","A","I","L","E","D">>) \/ includes(status, <<"E","R","R","O","R">>)

\* "Check for errors", then "Wait before next poll"
CheckForErrors(g) ==
  IF IsFailed(g.details.status)
    THEN Caught(g, <<"G","e","n","e","r","a","t","i","o","n"," ","f","a","i","l","e","d"," ","w","i","t","h"," ","s","t","a","t","u","s",":"," ">> \o g.details.status)
    ELSE [g EXCEPT !.pc = "awaitTimer", !.promise = "none"]

\* "Check for final audio at SUCCESS": finalAudioUrl = audioUrl || streamAudioUrl
CheckForFinalAudio(g) ==
  IF g.details.status = StatusSuccess
    THEN LET finalAudioUrl ==
               IF g.details.audioUrl # NoUrl THEN g.details.audioUrl
               ELSE g.details.streamAudioUrl
             h == [g EXCEPT !.finalAudioUrl = finalAudioUrl]
         IN IF finalAudioUrl # NoUrl
              THEN [h EXCEPT !.pc = "awaitSaveFinal", !.promise = "pending",
                             !.progress = "Final high-quality audio ready!"]
              ELSE CheckForErrors(h)
    ELSE CheckForErrors(g)

\* Mutant of CheckForStreamingAudio: streaming audio is looked for on every
\* poll, delivered or not
CheckForStreamingAudioAgain(g) ==
  IF /\ g.details.status \in {StatusTextSuccess, StatusFirstSuccess, StatusSuccess}
     /\ g.details.streamAudioUrl # NoUrl
    THEN [g EXCEPT !.pc = "awaitSaveStreaming", !.promise = "pending",
                   !.progress = "Audio streaming ready!"]
    ELSE CheckForFinalAudio(g)

\* "Check for streaming audio at TEXT_SUCCESS"
CheckForStreamingAudio(g) ==
  IF /\ ~g.streamingAudioDelivered
     /\ g.details.status \in {StatusTextSuccess, StatusFirstSuccess, StatusSuccess}
     /\ g.details.streamAudioUrl # NoUrl
    THEN [g EXCEPT !.pc = "awaitSaveStreaming", !.promise = "pending",
                   !.progress = "Audio streaming ready!"]
    ELSE CheckForFinalAudio(g)

\* handleGenerate is called (the Generate button): blocked, or the task is
\* requested with generateMusic (custom) or uploadAndCover (remix)
HandleGenerate(mode, enhancedLyrics, referenceAudioUrl) ==
  /\ gen.pc = "idle"
  /\ gen' =
       IF ~canGenerate(enhancedLyrics)
         THEN [gen EXCEPT !.pc = "blocked", !.mode = mode,
                          !.error = <<"P","l","e","a","s","e"," ","e","n","h","a","n","c","e"," ","y","o","u","r"," ","l","y","r","i","c","s"," ","f","i","r","s","t">>]
       ELSE IF mode = "remix" /\ ~canUseRemix(referenceAudioUrl)
         THEN [gen EXCEPT !.pc = "blocked", !.mode = mode,
                          !.error = <<"P","l","e","a","s","e"," ","s","e","l","e","c","t"," ","a"," ","s","t","y","l","e"," ","w","i","t","h"," ","r","e","f","e","r","e","n","c","e"," ","a","u","d","i","o"," ","o","r"," ","p","r","o","v","i","d","e"," ","a"," ","c","u","s","t","o","m"," ","r","e","f","e","r","e","n","c","e"," ","U","R","L">>]
       ELSE IF mode = "remix" /\ referenceAudioUrl = <<>>
         THEN Caught([gen EXCEPT !.mode = mode],
                     <<"R","e","f","e","r","e","n","c","e"," ","a","u","d","i","o"," ","U","R","L"," ","i","s"," ","r","e","q","u","i","r","e","d"," ","f","o","r"," ","r","e","m","i","x"," ","m","o","d","e">>)
       ELSE [gen EXCEPT !.pc = "awaitTask", !.mode = mode,
                        !.promise = "pending", !.isGenerating = TRUE,
                        !.progress = "Starting generation..."]
  /\ UNCHANGED <<validateVars, rollback, evaluated, poll>>

\* The awaited request (generateMusic, uploadAndCover, getMusicDetails without
\* its details, saveGeneration) fails
RequestFails ==
  /\ gen.pc \in {"awaitTask", "awaitDetails", "awaitSaveStreaming", "awaitSaveFinal"}
  /\ gen.promise = "pending"
  /\ gen' = [gen EXCEPT !.promise = "rejected"]
  /\ UNCHANGED <<validateVars, rollback, evaluated, poll>>

\* The catch block after an awaited request failed with some message
CatchRejection(message) ==
  /\ gen.promise = "rejected"
  /\ gen' = Caught(gen, message)
  /\ UNCHANGED <<validateVars, rollback, evaluated, poll>>

\* generateMusic or uploadAndCover answers with the task id
TaskCreated ==
  /\ gen.pc = "awaitTask"
  /\ gen.promise = "pending"
  /\ gen' = [gen EXCEPT !.promise = "fulfilled"]
  /\ UNCHANGED <<validateVars, rollback, evaluated, poll>>

\* handleGenerate resumes with the task id and enters the polling loop
ResumeAfterTask ==
  /\ gen.pc = "awaitTask"
  /\ gen.promise = "fulfilled"
  /\ gen' = GenerationLoop(
              [gen EXCEPT !.streamingAudioDelivered = FALSE,
                          !.finalAudioUrl = NoUrl,
                          !.progress = "Waiting for Suno to complete generation..."],
              0)
  /\ UNCHANGED <<validateVars, rollback, evaluated, poll>>

\* getMusicDetails answers with a status and the URLs of sunoData[0]
MusicDetailsArrive(status, streamAudioUrl, audioUrl) ==
  /\ gen.pc = "awaitDetails"
  /\ gen.promise = "pending"
  /\ gen' = [gen EXCEPT !.promise = "fulfilled",
                        !.details = [status |-> status,
                                     streamAudioUrl |-> streamAudioUrl,
                                     audioUrl |-> audioUrl]]
  /\ UNCHANGED <<validateVars, rollback, evaluated, poll>>

\* handleGenerate resumes after await getMusicDetails
ResumeAfterMusicDetails ==
  /\ gen.pc = "awaitDetails"
  /\ gen.promise = "fulfilled"
  /\ gen' = CheckForStreamingAudio(gen)
  /\ UNCHANGED <<validateVars, rollback, evaluated, poll>>

\* filesystemService.saveGeneration stores the generation
GenerationSaved ==
  /\ gen.pc \in {"awaitSaveStreaming", "awaitSaveFinal"}
  /\ gen.promise = "pending"
  /\ gen' = [gen EXCEPT
               !.promise = "fulfilled",
               !.saved = Append(@,
                  IF gen.pc = "awaitSaveStreaming"
                    THEN [status |-> "streaming",
                          audioUrl |-> gen.details.streamAudioUrl]
                    ELSE [status |-> "completed",
                          audioUrl |-> gen.finalAudioUrl])]
  /\ UNCHANGED <<validateVars, rollback, evaluated, poll>>

\* handleGenerate resumes after saving the streaming generation: it delivers
\* the streaming URL and goes on with the same poll
ResumeAfterSaveStreaming ==
  /\ gen.pc = "awaitSaveStreaming"
  /\ gen.promise = "fulfilled"
  /\ gen' = CheckForFinalAudio(
              [gen EXCEPT !.delivered =
                            Append(@, [audio |-> "streaming",
                                       url |-> gen.details.streamAudioUrl]),
                          !.streamingAudioDelivered = TRUE])
  /\ UNCHANGED <<validateVars, rollback, evaluated, poll>>

\* "If we already delivered streaming audio, update it", or the edge case of
\* no streaming delivery
UpdatesWithFinal(g) ==
  \/ g.streamingAudioDelivered /\ g.finalAudioUrl # g.details.streamAudioUrl
  \/ ~g.streamingAudioDelivered

\* handleGenerate resumes after saving the completed generation: it delivers
\* the final URL where needed and leaves the loop
ResumeAfterSaveFinal ==
  /\ gen.pc = "awaitSaveFinal"
  /\ gen.promise = "fulfilled"
  /\ gen' = AfterLoop(
              IF UpdatesWithFinal(gen)
                THEN [gen EXCEPT !.delivered =
                                   Append(@, [audio |-> "final",
                                              url |-> gen.finalAudioUrl])]
                ELSE gen)
  /\ UNCHANGED <<validateVars, rollback, evaluated, poll>>

\* The 5 second timer fires and the loop goes on with attempt++
PollTimerFires ==
  /\ gen.pc = "awaitTimer"
  /\ gen' = GenerationLoop(gen, gen.attempt + 1)
  /\ UNCHANGED <<validateVars, rollback, evaluated, poll>>

\* The 2 second timer after 'Generation complete!' clears the progress
ProgressCleared ==
  /\ gen.pc = "complete"
  /\ gen.isGenerating
  /\ gen' = [gen EXCEPT !.progress = "", !.isGenerating = FALSE]
  /\ UNCHANGED <<validateVars, rollback, evaluated, poll>>

NextGenerate ==
  \/ \E mode \in Modes, enhancedLyrics \in EnhancedLyricsInputs,
        referenceAudioUrl \in ReferenceAudioInputs :
       HandleGenerate(mode, enhancedLyrics, referenceAudioUrl)
  \/ RequestFails
  \/ \E message \in RejectionMessages : CatchRejection(message)
  \/ TaskCreated
  \/ ResumeAfterTask
  \/ \E status \in GenerationStatus, streamAudioUrl, audioUrl \in {NoUrl} \cup Urls :
       MusicDetailsArrive(status, streamAudioUrl, audioUrl)
  \/ ResumeAfterMusicDetails
  \/ GenerationSaved
  \/ ResumeAfterSaveStreaming
  \/ ResumeAfterSaveFinal
  \/ PollTimerFires
  \/ ProgressCleared

SpecGenerate == Init /\ [][NextGenerate]_vars

(***************************************************************************)
(* Properties                                                              *)
(***************************************************************************)
\* The invocations that have returned a ValidationResult
Returned == {c \in Calls : returned[c] # <<>>}
ResultOf(c) == returned[c][1]

\* The words of a normalized text
TokensOf(normalizedText) == Range(split(normalizedText, " "))

\* The normalized word stands in the normalized text as a whole word.  The
\* empty word (a critical word of accented letters only) has no characters
\* to find: the pattern \b\b asks for a word boundary, which every text but
\* the empty one has.
OccursAsWholeWord(normalizedWord, normalizedText) ==
  IF normalizedWord = <<>> THEN normalizedText # <<>>
  ELSE normalizedWord \in TokensOf(normalizedText)

ErrorWords(result) == {result.errors[k].word : k \in DOMAIN result.errors}

\* C1: a returned verdict is valid if and only if its errors list is empty
\* and its confidence is strictly greater than 85.
C1_ValidIffNoErrorsAndAbove85 ==
  \A c \in Returned :
    ResultOf(c).valid <=>
      /\ Len(ResultOf(c).errors) = 0
      /\ ResultOf(c).confidence.num > 85 * ResultOf(c).confidence.den

\* A verdict with no errors and a confidence of exactly 85, which is invalid
C1_Witness ==
  \E c \in Returned :
    /\ ResultOf(c).errors = <<>>
    /\ ResultOf(c).confidence.num = 85 * ResultOf(c).confidence.den
    /\ ~ResultOf(c).valid

\* C3: an error is recorded for a critical word if and only if its
\* normalized form does not occur as a whole word in the normalized
\* transcription.
C3_ErrorIffNotWholeWord ==
  \A c \in Returned :
    \A word \in Range(extractCriticalWords(lyricsOf[c])) :
      (word \in ErrorWords(ResultOf(c))) <=>
        ~OccursAsWholeWord(normalizeText(word),
                           normalizeText(ResultOf(c).transcription))

\* One verdict with a critical word that is found whole in a transcription
\* of several words, and a critical word that is not found
C3_Witness ==
  \E c \in Returned :
    LET words == Range(extractCriticalWords(lyricsOf[c]))
        text == normalizeText(ResultOf(c).transcription)
    IN /\ \E word \in words :
            /\ normalizeText(word) # <<>>
            /\ normalizeText(word) \in TokensOf(text)
            /\ word \notin ErrorWords(ResultOf(c))
       /\ Cardinality(TokensOf(text)) > 1
       /\ \E word \in words : word \in ErrorWords(ResultOf(c))

\* The least edit distance from the word to a token of the text
LeastDistance(normalizedWord, normalizedText) ==
  LET ds == {levenshteinDistance(normalizedWord, t) : t \in TokensOf(normalizedText)}
  IN CHOOSE d \in ds : \A e \in ds : d <= e

C5_ErrorWordsAreCriticalWords ==
  \A c \in Returned :
    \A k \in DOMAIN ResultOf(c).errors :
      /\ ResultOf(c).errors[k].word \in Range(extractCriticalWords(lyricsOf[c]))
      /\ ResultOf(c).errors[k].expected = ResultOf(c).errors[k].word

\* A verdict with two errors
C5_Witness == \E c \in Returned : Len(ResultOf(c).errors) > 1

\* The error of the request that failed, if one did
FailureOf(c) ==
  IF getPromise[c].state = "rejected" THEN <<getPromise[c].error>>
  ELSE IF postPromise[c].state = "rejected" THEN <<postPromise[c].error>>
  ELSE <<>>

\* C6: when the transcription fails, validateAudio fails with that error and
\* returns no verdict; it calls the transcription once per invocation; an
\* invocation ends with a verdict or with an error, never both.
C6_FailurePropagatesOnce ==
  \A c \in Calls :
    /\ transcribeCalls[c] = (IF pc[c] = "idle" THEN 0 ELSE 1)
    /\ (returned[c] # <<>>) <=> (pc[c] = "returned")
    /\ (thrown[c] # <<>>) <=> (pc[c] = "thrown")
    /\ FailureOf(c) # <<>> =>
         /\ pc[c] # "returned"
         /\ pc[c] = "thrown" => thrown[c] = FailureOf(c)

\* The transcription request failed and validateAudio has thrown its error
C6_Witness ==
  /\ pc[1] = "thrown"
  /\ postPromise[1].state = "rejected"
  /\ thrown[1] = <<postPromise[1].error>>

\* C7: an invocation that awaits the transcription eventually ends.
C7_ValidateAudioTerminates ==
  (pc[1] \in {"awaitGet", "awaitPost"}) ~> (pc[1] \in {"returned", "thrown"})

\* C8: the verdict of each of several concurrent invocations is the verdict
\* of its own lyrics and its own transcription.
C8_VerdictOfOwnInputs ==
  \A c \in Returned :
    /\ postPromise[c].state = "fulfilled"
    /\ ResultOf(c) = ValidationResultOf(lyricsOf[c], postPromise[c].text)

\* Both invocations have returned, on different lyrics and different
\* transcriptions
C8_Witness ==
  /\ Returned = Calls
  /\ lyricsOf[1] # lyricsOf[2]
  /\ postPromise[1].text # postPromise[2].text
  /\ ResultOf(1) # ResultOf(2)

\* A line that, trimmed, is [label] with a label containing verse or chorus
\* (in any case)
LabelOf(line) == toLowerCase(SubSeq(trim(line), 2, Len(trim(line)) - 1))

IsVerseOrChorusMarker(line) ==
  /\ Len(trim(line)) >= 2
  /\ trim(line)[1] = "["
  /\ trim(line)[Len(trim(line))] = "]"
  /\ \/ includes(LabelOf(line), <<"v","e","r","s","e">>)
     \/ includes(LabelOf(line), <<"c","h","o","r","u","s">>)

\* The zero-based indexes of the verse and chorus markers of the lyrics
MarkerIndexes(lyrics) ==
  LET lines == split(lyrics, "\n")
  IN {i \in 0..(Len(lines) - 1) : IsVerseOrChorusMarker(lines[i + 1])}

\* The target at the last of the indexes, or the default target
TargetAtLast(lyrics, indexes) ==
  IF indexes = {} THEN [section |-> <<"I","n","t","r","o">>, line |-> 0]
  ELSE LET last == CHOOSE i \in indexes : \A j \in indexes : j <= i
       IN [section |-> LabelOf(split(lyrics, "\n")[last + 1]), line |-> last]

\* C2: with an errorPosition p, findRollbackPoint returns the last verse or
\* chorus marker at a line index <= p, or line 0 with the default label when
\* there is none; no marker past p is used.  Stated for p >= 1 (what the call
\* does with p = 0 is the subject of C30).
C2_NoMarkerPastErrorPosition ==
  \A k \in DOMAIN rollback :
    (rollback[k].errorPosition # Undefined /\ rollback[k].errorPosition[1] >= 1) =>
      rollback[k].result =
        TargetAtLast(rollback[k].lyrics,
                     {i \in MarkerIndexes(rollback[k].lyrics) :
                        i <= rollback[k].errorPosition[1]})

\* C9: with no errorPosition, findRollbackPoint returns the line index and
\* the lowercased label of the last verse or chorus marker of the lyrics.
C9_LastMarkerWithoutErrorPosition ==
  \A k \in DOMAIN rollback :
    rollback[k].errorPosition = Undefined =>
      rollback[k].result =
        TargetAtLast(rollback[k].lyrics, MarkerIndexes(rollback[k].lyrics))

\* The example: line 4, section 'chorus'
C9_Witness ==
  \E k \in DOMAIN rollback :
    /\ rollback[k].lyrics = ExampleLyrics
    /\ rollback[k].errorPosition = Undefined
    /\ rollback[k].result = [section |-> <<"c","h","o","r","u","s">>, line |-> 4]

\* C10: the line returned is 0 or the index of a verse or chorus marker, and
\* the section is the lowercased label of that line or the default label.
C10_TargetIsVerseOrChorusMarker ==
  \A k \in DOMAIN rollback :
    LET result == rollback[k].result
        lines == split(rollback[k].lyrics, "\n")
    IN \/ /\ result.line = 0
          /\ result.section = <<"I","n","t","r","o">>
       \/ /\ result.line \in MarkerIndexes(rollback[k].lyrics)
          /\ result.section = LabelOf(lines[result.line + 1])

\* A call with an errorPosition that returns a marker past line 0 from lyrics
\* that hold an [Intro] marker as well
C10_Witness ==
  \E k \in DOMAIN rollback :
    /\ rollback[k].errorPosition # Undefined
    /\ rollback[k].result.line > 0
    /\ \E i \in DOMAIN split(rollback[k].lyrics, "\n") :
         split(rollback[k].lyrics, "\n")[i] = LineIntro

\* C11: for lyrics with no verse or chorus marker, with or without an
\* errorPosition, findRollbackPoint returns line 0 and the default label.
C11_DefaultWithoutMarker ==
  \A k \in DOMAIN rollback :
    MarkerIndexes(rollback[k].lyrics) = {} =>
      rollback[k].result = [section |-> <<"I","n","t","r","o">>, line |-> 0]

\* A call with an errorPosition on lyrics whose only marker, [Intro], lies
\* past line 0
C11_Witness ==
  \E k \in DOMAIN rollback :
    LET lines == split(rollback[k].lyrics, "\n")
    IN /\ MarkerIndexes(rollback[k].lyrics) = {}
       /\ rollback[k].errorPosition # Undefined
       /\ Len(lines) >= 2
       /\ lines[2] = LineIntro
       /\ rollback[k].result.line = 0

\* The calls of a pure function that have been evaluated
CallsOf(fn) == Range(evaluated[fn])

\* The offsets of the line breaks of a text, in order
LineBreaks(text) == SelectSeq([i \in 1..Len(text) |-> i], LAMBDA i : text[i] = "\n")

\* The text from its line of index n on: the whole text for n = 0, what
\* follows the n-th line break for 0 < n < number of lines, and nothing for
\* n = number of lines
TextFromLine(text, n) ==
  IF n = 0 THEN text
  ELSE IF n <= Len(LineBreaks(text))
    THEN SubSeq(text, LineBreaks(text)[n] + 1, Len(text))
  ELSE <<>>

\* C12: extractRemainingLyrics(lyrics, n) is the text of the lines of lyrics
\* from index n to the end, for 0 <= n <= number of lines; with n = 0 it is
\* lyrics itself.
C12_RemainingLyricsFromLine ==
  \A call \in CallsOf("extractRemainingLyrics") :
    LET lyrics == call.args[1]
        n == call.args[2]
    IN n <= Len(LineBreaks(lyrics)) + 1 =>
         /\ call.result = TextFromLine(lyrics, n)
         /\ n = 0 => call.result = lyrics

\* A call from line 1 of lyrics of three lines, the last one empty
C12_Witness ==
  \E call \in CallsOf("extractRemainingLyrics") :
    /\ Len(LineBreaks(call.args[1])) = 2
    /\ call.args[1][Len(call.args[1])] = "\n"
    /\ call.args[2] = 1
    /\ call.result # <<>>

\* The edit distance by its definition: the least cost of turning a into b
\* where the first character of a is deleted, the first character of b is
\* inserted, or the first of a becomes the first of b (at no cost when they
\* are equal)
RECURSIVE EditDistance(_, _)
EditDistance(a, b) ==
  IF a = <<>> THEN Len(b)
  ELSE IF b = <<>> THEN Len(a)
  ELSE LET substituted ==
             EditDistance(Tail(a), Tail(b)) + (IF Head(a) = Head(b) THEN 0 ELSE 1)
           deleted == EditDistance(Tail(a), b) + 1
           inserted == EditDistance(a, Tail(b)) + 1
       IN IF substituted <= deleted /\ substituted <= inserted THEN substituted
          ELSE IF deleted <= inserted THEN deleted
          ELSE inserted

\* C13: levenshteinDistance(a, b) is the edit distance of a and b: the least
\* number of insertions, deletions and substitutions that turn a into b.
C13_DistanceIsEditDistance ==
  \A call \in CallsOf("levenshteinDistance") :
    call.result = EditDistance(call.args[1], call.args[2])

\* 'kitten' -> 'sitting' is 3
C13_Witness ==
  \E call \in CallsOf("levenshteinDistance") :
    /\ call.args = <<Kitten, Sitting>>
    /\ call.result = 3

\* C14: levenshteinDistance(s, s) is 0 and calculateSimilarity(s, s) is 100,
\* for the empty string too.
C14_IdenticalStrings ==
  /\ \A call \in CallsOf("levenshteinDistance") :
       call.args[1] = call.args[2] => call.result = 0
  /\ \A call \in CallsOf("calculateSimilarity") :
       call.args[1] = call.args[2] =>
         /\ call.result.den > 0
         /\ call.result.num = 100 * call.result.den

\* calculateSimilarity('', '') has been evaluated
C14_Witness ==
  \E call \in CallsOf("calculateSimilarity") :
    /\ call.args = << <<>>, <<>> >>
    /\ call.result.num = 100 * call.result.den

\* Two fractions of positive denominators with the same value
SameFraction(x, y) == x.den > 0 /\ y.den > 0 /\ x.num * y.den = y.num * x.den

\* C15: levenshteinDistance(a, b) = levenshteinDistance(b, a), and
\* calculateSimilarity(a, b) = calculateSimilarity(b, a).
C15_Symmetric ==
  /\ \A call \in CallsOf("levenshteinDistance") :
       call.result =
         levenshteinDistance(call.args[2], call.args[1])
  /\ \A call \in CallsOf("calculateSimilarity") :
       SameFraction(call.result,
                    calculateSimilarity(call.args[2], call.args[1]))

\* The similarity of two different strings of different lengths, below 100
C15_Witness ==
  \E call \in CallsOf("calculateSimilarity") :
    /\ Len(call.args[1]) < Len(call.args[2])
    /\ call.args[1] # <<>>
    /\ call.result.num < 100 * call.result.den

\* C16: for a and b not both empty, calculateSimilarity(a, b) is
\* (maxLen - distance(a, b)) / maxLen * 100 with maxLen the longer length, and
\* lies between 0 and 100.
C16_SimilarityFormulaAndRange ==
  \A call \in CallsOf("calculateSimilarity") :
    LET a == call.args[1]
        b == call.args[2]
        maxLen == IF Len(a) >= Len(b) THEN Len(a) ELSE Len(b)
        result == call.result
    IN maxLen > 0 =>
         /\ result.den > 0
         /\ result.num * maxLen = (maxLen - EditDistance(a, b)) * 100 * result.den
         /\ 0 <= result.num
         /\ result.num <= 100 * result.den

\* A similarity of 0: every character differs, the second string is longer
C16_Witness ==
  \E call \in CallsOf("calculateSimilarity") :
    /\ call.args[1] # <<>>
    /\ Len(call.args[1]) < Len(call.args[2])
    /\ call.result.num = 0

\* C17: normalizeText(normalizeText(x)) = normalizeText(x).
C17_NormalizeIdempotent ==
  \A call \in CallsOf("normalizeText") :
    normalizeText(call.result) = call.result

\* A text that normalizeText changes into two words
C17_Witness ==
  \E call \in CallsOf("normalizeText") :
    /\ call.result # call.args[1]
    /\ Len(call.args[1]) <= MaxTextLen
    /\ \E i \in DOMAIN call.result : call.result[i] = " "

\* The characters a normalized text is made of, the space apart
NormalizedChars ==
  {"a","b","c","d","e","f","g","h","i","j","k","l","m","n","o","p","q","r",
   "s","t","u","v","w","x","y","z","0","1","2","3","4","5","6","7","8","9","_"}

\* C18: normalizeText returns lowercase ASCII word characters and single
\* spaces only, with no space at either end; 'Hello, world!' gives
\* 'hello world', 'México' gives 'mxico', '!!!' gives ''.
C18_NormalizedForm ==
  \A call \in CallsOf("normalizeText") :
    LET text == call.args[1]
        result == call.result
    IN /\ \A i \in DOMAIN result : result[i] \in NormalizedChars \cup {" "}
       /\ result # <<>> => result[1] # " " /\ result[Len(result)] # " "
       /\ \A i \in 1..(Len(result) - 1) : ~(result[i] = " " /\ result[i + 1] = " ")
       /\ text = HelloWorld =>
            result = <<"h","e","l","l","o"," ","w","o","r","l","d">>
       /\ text = Mexico => result = <<"m","x","i","c","o">>
       /\ text = <<"!","!","!">> => result = <<>>

\* normalizeText('Hello, world!') has been evaluated
C18_Witness ==
  \E call \in CallsOf("normalizeText") :
    /\ call.args[1] = HelloWorld
    /\ Len(call.result) = 11

\* The line of a text, with its whitespace taken out
Inked(line) == SelectSeq(line, LAMBDA c : c \notin SpaceChars)

\* The zero-based indexes of the lines that are section markers
MarkerLines(lyrics) ==
  LET lines == split(lyrics, "\n")
  IN {i \in 0..(Len(lines) - 1) :
        /\ Inked(lines[i + 1]) # <<>>
        /\ Head(Inked(lines[i + 1])) = "["
        /\ Inked(lines[i + 1])[Len(Inked(lines[i + 1]))] = "]"}

\* The offsets at which a token of the lyrics starts, in order: a character
\* that is no whitespace and follows whitespace or nothing
TokenStarts(lyrics) ==
  SelectSeq([i \in 1..Len(lyrics) |-> i],
            LAMBDA i : /\ lyrics[i] \notin SpaceChars
                       /\ (i = 1 \/ lyrics[i - 1] \in SpaceChars))

\* The token that starts at an offset: up to the next whitespace or the end
TokenAt(lyrics, start) ==
  LET ends == {j \in start..Len(lyrics) :
                 j = Len(lyrics) \/ lyrics[j + 1] \in SpaceChars}
  IN SubSeq(lyrics, start, CHOOSE j \in ends : \A e \in ends : j <= e)

\* The index of the line an offset lies in
LineOfOffset(lyrics, offset) ==
  Cardinality({i \in 1..(offset - 1) : lyrics[i] = "\n"})

\* The tokens of the lines that are no section markers, in order, each with
\* the characters outside `kept` taken out
CleanTokens(lyrics, kept) ==
  LET starts == SelectSeq(TokenStarts(lyrics),
                          LAMBDA i : LineOfOffset(lyrics, i) \notin MarkerLines(lyrics))
  IN [k \in 1..Len(starts) |->
        SelectSeq(TokenAt(lyrics, starts[k]), LAMBDA c : c \in kept)]

Letters ==
  {"a","b","c","d","e","f","g","h","i","j","k","l","m","n","o","p","q","r",
   "s","t","u","v","w","x","y","z","A","B","C","D","E","F","G","H","I","J",
   "K","L","M","N","O","P","Q","R","S","T","U","V","W","X","Y","Z",
   "á","é","í","ó","ú","ñ","ü","Á","É","Í","Ó","Ú","Ñ","Ü"}

\* A clean token qualifies: longer than 2, and it starts with an uppercase
\* letter, holds an accented vowel, ñ or ü, or matches a risk pattern
Qualifies(token) ==
  /\ Len(token) > 2
  /\ \/ Head(token) \in {"A","B","C","D","E","F","G","H","I","J","K","L","M",
                         "N","O","P","Q","R","S","T","U","V","W","X","Y","Z",
                         "Á","É","Í","Ó","Ú","Ñ","Ü"}
     \/ \E i \in DOMAIN token :
          token[i] \in {"á","é","í","ó","ú","ñ","ü","Á","É","Í","Ó","Ú","Ñ","Ü"}
     \/ isMispronunciationProne(token)

QualifyingTokens(lyrics, kept) ==
  {token \in Range(CleanTokens(lyrics, kept)) : Qualifies(token)}

\* C19 as stated: extractCriticalWords returns exactly the qualifying clean
\* tokens of the lines that are no markers, a clean token being the token with
\* every character that is not a letter taken out.
C19_CleanTokensOfLetters ==
  \A call \in CallsOf("extractCriticalWords") :
    Range(call.result) = QualifyingTokens(call.args[1], Letters)

\* C19, amended: extractCriticalWords returns exactly the qualifying clean
\* tokens of the lines that are no markers, a clean token being the token with
\* every character taken out that is neither a word character (ASCII letter,
\* digit, underscore) nor one of áéíóúñü in either case; lyrics with no
\* qualifying token give the empty list.
C19_CleanTokensOfWordChars ==
  \A call \in CallsOf("extractCriticalWords") :
    /\ Range(call.result) =
         QualifyingTokens(call.args[1], Letters \cup Digits \cup {"_"})
    /\ call.args[1] = <<>> => call.result = <<>>

\* Lyrics with a marker line and a line of tokens that hold digits, one of
\* which is a critical word
C19_Witness ==
  \E call \in CallsOf("extractCriticalWords") :
    /\ MarkerLines(call.args[1]) # {}
    /\ <<"A","b","1">> \in Range(call.result)
    /\ Len(call.result) = 1

\* The offset of the first occurrence of a word among the clean tokens
FirstOccurrence(word, tokens) ==
  CHOOSE i \in DOMAIN tokens :
    tokens[i] = word /\ \A j \in 1..(i - 1) : tokens[j] # word

\* C20: the list extractCriticalWords returns holds no word twice, and its
\* words are in the order of their first occurrence in the lyrics.
C20_DistinctInFirstOccurrenceOrder ==
  \A call \in CallsOf("extractCriticalWords") :
    LET result == call.result
        tokens == CleanTokens(call.args[1], Letters \cup Digits \cup {"_"})
    IN \A i, j \in DOMAIN result :
         i < j =>
           /\ result[i] # result[j]
           /\ result[i] \in Range(tokens)
           /\ result[j] \in Range(tokens)
           /\ FirstOccurrence(result[i], tokens) < FirstOccurrence(result[j], tokens)

\* Lyrics in which a critical word comes back after another one
C20_Witness ==
  \E call \in CallsOf("extractCriticalWords") :
    LET result == call.result
        tokens == CleanTokens(call.args[1], Letters \cup Digits \cup {"_"})
    IN /\ Len(result) >= 2
       /\ \E i, j \in DOMAIN tokens :
            /\ i + 1 < j
            /\ tokens[i] = result[1]
            /\ tokens[j] = result[1]
            /\ \E m \in (i + 1)..(j - 1) : tokens[m] = result[2]

\* ---- pollUntilComplete ----

\* The statuses that end a generation well, and those that end it badly
SuccessStatuses == {StatusSuccess, StatusFirstSuccess, StatusTextSuccess}
FailureStatuses ==
  {StatusCreateTaskFailed, StatusGenerateAudioFailed, StatusCallbackException,
   StatusSensitiveWordError}

\* pollUntilComplete has resumed from the latest poll, which was answered
PollAnswered ==
  /\ poll.pc \in {"awaitTimer", "returned", "thrown"}
  /\ poll.calls > 0
  /\ poll.details.poll = poll.calls

\* C21: once a poll is answered with status SUCCESS, FIRST_SUCCESS or
\* TEXT_SUCCESS, pollUntilComplete returns the details of that poll without
\* polling again; a status that differs from these in case ('success',
\* 'Success') does not make it return.
C21_ReturnsAtFirstSuccess ==
  /\ PollAnswered /\ poll.details.status \in SuccessStatuses
       => poll.pc = "returned" /\ poll.returned = <<poll.details>>
  /\ PollAnswered /\ poll.details.status \notin SuccessStatuses
                  /\ toLowerCase(poll.details.status) = <<"s","u","c","c","e","s","s">>
       => poll.pc # "returned"

\* 'Generation failed with status: <status>'
FailedWithStatus(status) == <<"G","e","n","e","r","a","t","i","o","n"," ","f","a","i","l","e","d"," ","w","i","t","h"," ","s","t","a","t","u","s",":"," ">> \o status

\* C22: once a poll is answered with status CREATE_TASK_FAILED,
\* GENERATE_AUDIO_FAILED, CALLBACK_EXCEPTION or SENSITIVE_WORD_ERROR,
\* pollUntilComplete throws 'Generation failed with status: <status>' without
\* polling again, whatever was polled before.
C22_ThrowsAtFirstFailure ==
  PollAnswered /\ poll.details.status \in FailureStatuses
    => /\ poll.pc = "thrown"
       /\ poll.thrown = <<FailedWithStatus(poll.details.status)>>

\* The polling ended on the timeout
TimedOut ==
  /\ poll.pc = "thrown"
  /\ poll.thrown = <<<<"G","e","n","e","r","a","t","i","o","n"," ","t","i","m","e","o","u","t"," ","a","f","t","e","r"," ">> \o DecimalOf(poll.maxAttempts)
                       \o <<" ","a","t","t","e","m","p","t","s">>>>

\* The latest poll reported a status that ends the generation, by the
\* service's statuses or by the statuses pollUntilComplete compares with
ReportedEnd ==
  /\ PollAnswered
  /\ poll.details.status
       \in SuccessStatuses \cup FailureStatuses
             \cup {StatusComplete, StatusCompleted, StatusError}

\* The latest poll failed instead of reporting a status
PollRejected ==
  /\ poll.pc = "thrown"
  /\ poll.calls > 0
  /\ poll.details.poll # poll.calls

\* C23: pollUntilComplete never calls the details function more than
\* maxAttempts times; unless a poll reports an end status or fails, it ends
\* only on the timeout, after exactly maxAttempts calls, with 'Generation
\* timeout after <maxAttempts> attempts'; and once called it always ends when
\* every poll is answered.
C23_ExactlyMaxAttemptsThenTimeout ==
  /\ [](poll.calls <= poll.maxAttempts)
  /\ [](poll.pc \in {"returned", "thrown"}
          => \/ ReportedEnd
             \/ PollRejected
             \/ TimedOut /\ poll.calls = poll.maxAttempts)
  /\ [](TimedOut => poll.calls = poll.maxAttempts)
  /\ (poll.pc # "idle" ~> poll.pc \in {"returned", "thrown"})

\* The default of 60 attempts ran out on polls that reported PENDING
C23_Witness ==
  /\ TimedOut
  /\ poll.maxAttempts = 60
  /\ poll.calls = 60
  /\ poll.details = [status |-> StatusPending, poll |-> 60]

\* ---- GenerationControl.handleGenerate ----

\* The positions of the calls of onGenerationComplete that delivered the
\* streaming URL, and those that delivered the final URL
StreamingDeliveries ==
  {k \in DOMAIN gen.delivered : gen.delivered[k].audio = "streaming"}
FinalDeliveries ==
  {k \in DOMAIN gen.delivered : gen.delivered[k].audio = "final"}

\* The latest poll reported SUCCESS with an audio URL (audioUrl, or failing
\* that streamAudioUrl)
SuccessWithAudio ==
  /\ gen.details.status = StatusSuccess
  /\ gen.details.audioUrl # NoUrl \/ gen.details.streamAudioUrl # NoUrl

\* The run ended with the error of a failure status
FailedWithFailureStatus ==
  /\ gen.pc = "failed"
  /\ gen.error = <<"G","e","n","e","r","a","t","i","o","n"," ","f","a","i","l","e","d",":"," ","G","e","n","e","r","a","t","i","o","n"," ","f","a","i","l","e","d"," ","w","i","t","h"," ","s","t","a","t","u","s",":"," ">> \o gen.details.status

\* The run ended with the error of a rejected request
FailedWithRejection ==
  /\ gen.pc = "failed"
  /\ \E message \in RejectionMessages :
       gen.error = <<"G","e","n","e","r","a","t","i","o","n"," ","f","a","i","l","e","d",":"," ">> \o message

\* C24: in one run the streaming URL is delivered at most once, and before
\* any delivery of the final URL; once it is delivered the run ends only on a
\* SUCCESS poll with an audio URL, on a failure (a failure status or a failed
\* request), or when the 60 attempts are used up.
C24_StreamingOnceThenFinal ==
  /\ Cardinality(StreamingDeliveries) <= 1
  /\ \A k \in StreamingDeliveries, m \in FinalDeliveries : k < m
  /\ gen.streamingAudioDelivered /\ gen.pc = "complete"
       => SuccessWithAudio \/ gen.polls = 60
  /\ gen.streamingAudioDelivered /\ gen.pc = "failed"
       => FailedWithFailureStatus \/ FailedWithRejection

\* The streaming URL was delivered on the first poll, polling went on, and
\* the final URL was delivered on a later SUCCESS poll
C24_Witness ==
  /\ gen.pc = "complete"
  /\ gen.polls = 3
  /\ gen.delivered = <<[audio |-> "streaming", url |-> 1],
                       [audio |-> "final", url |-> 2]>>

\* C25: once a poll of the run is answered with CREATE_TASK_FAILED,
\* GENERATE_AUDIO_FAILED, CALLBACK_EXCEPTION or SENSITIVE_WORD_ERROR, the run
\* ends with the error 'Generation failed with status: <status>' without
\* another poll.
C25_AbortsOnFailureStatus ==
  gen.details.status \in FailureStatuses /\ gen.pc # "awaitDetails"
    => FailedWithFailureStatus

\* The generations saved in the run
SavedGenerations == {gen.saved[k] : k \in DOMAIN gen.saved}

\* C26 as stated: a run that ended with 'Generation complete!' has saved a
\* generation with status 'completed' and the final audio URL, so a run
\* without a SUCCESS poll with an audio URL does not end that way.
C26_CompleteMeansCompletedSaved ==
  gen.pc = "complete"
    => /\ gen.finalAudioUrl # NoUrl
       /\ [status |-> "completed", audioUrl |-> gen.finalAudioUrl]
            \in SavedGenerations

\* C26, amended: a run that ended with 'Generation complete!' has saved a
\* generation: 'completed' with the final audio URL, saved last, if a SUCCESS
\* poll brought an audio URL, otherwise 'streaming' with the streaming URL it
\* delivered; a run that saved neither within the 60 attempts ended with an
\* error.
C26_CompleteMeansAudioSaved ==
  /\ gen.pc = "complete"
       => /\ gen.saved # <<>>
          /\ gen.finalAudioUrl # NoUrl
               => gen.saved[Len(gen.saved)]
                    = [status |-> "completed", audioUrl |-> gen.finalAudioUrl]
          /\ gen.finalAudioUrl = NoUrl
               => /\ gen.polls = 60
                  /\ Len(gen.saved) = 1
                  /\ gen.saved[1].status = "streaming"
                  /\ gen.delivered = <<[audio |-> "streaming",
                                        url |-> gen.saved[1].audioUrl]>>
  /\ gen.polls = 60 /\ gen.saved = <<>> /\ gen.pc \in {"complete", "failed"}
       => gen.pc = "failed"

\* The 60 attempts ran out after the streaming URL alone was delivered
C26_Witness ==
  /\ gen.pc = "complete"
  /\ gen.progress = "Generation complete!"
  /\ gen.polls = 60
  /\ gen.finalAudioUrl = NoUrl
  /\ gen.saved = <<[status |-> "streaming", audioUrl |-> 1]>>

\* C27: after a SUCCESS poll with a final audio URL whose generation was
\* saved, the last URL passed to onGenerationComplete is that URL; and
\* onGenerationComplete is called at most twice in a run.
C27_LastDeliveredIsFinal ==
  /\ Len(gen.delivered) <= 2
  /\ gen.pc = "complete" /\ gen.finalAudioUrl # NoUrl
       => /\ gen.delivered # <<>>
          /\ gen.delivered[Len(gen.delivered)].url = gen.finalAudioUrl

\* ---- Bounds of the distance; markers in the confidence; errorPosition 0 ----

\* C28: levenshteinDistance(a, b) is at least the difference of the lengths
\* of a and b, at most the greater of the two lengths, and 0 only if a = b.
C28_DistanceBounds ==
  \A call \in CallsOf("levenshteinDistance") :
    LET a == call.args[1]
        b == call.args[2]
        difference == IF Len(a) >= Len(b) THEN Len(a) - Len(b)
                      ELSE Len(b) - Len(a)
        longest == IF Len(a) >= Len(b) THEN Len(a) ELSE Len(b)
    IN /\ difference <= call.result
       /\ call.result <= longest
       /\ call.result = 0 => a = b

\* Two different strings of different lengths whose distance lies strictly
\* between the two bounds
C28_Witness ==
  \E call \in CallsOf("levenshteinDistance") :
    /\ Len(call.args[1]) < Len(call.args[2])
    /\ Len(call.args[2]) - Len(call.args[1]) < call.result
    /\ call.result < Len(call.args[2])

\* The lyrics without their section-marker lines
ContentOf(lyrics) ==
  LET lines == split(lyrics, "\n")
      kept == {i \in 1..Len(lines) : (i - 1) \notin MarkerLines(lyrics)}
      Pick(i) == IF i \in kept THEN <<lines[i]>> ELSE <<>>
      Gather[i \in 0..Len(lines)] ==
        IF i = 0 THEN <<>> ELSE Gather[i - 1] \o Pick(i)
  IN join(Gather[Len(lines)], <<"\n">>)

\* The words of a text as the comparison sees them
WordsOf(text) == split(normalizeText(text), " ")

\* Call c returned, and its transcription is the content lines of its lyrics
\* word for word
SungAsWritten(c) ==
  /\ c \in Returned
  /\ WordsOf(ResultOf(c).transcription) = WordsOf(ContentOf(lyricsOf[c]))

\* C29 as stated: when the transcription equals the content lines of the
\* lyrics word for word (and there is a word to sing), the confidence is 100,
\* whatever section markers the lyrics hold.
C29_ConfidenceIgnoresMarkers ==
  \A c \in Calls :
    SungAsWritten(c) /\ normalizeText(ContentOf(lyricsOf[c])) # <<>>
      => ResultOf(c).confidence.num = 100 * ResultOf(c).confidence.den

\* C29, amended: the confidence compares the transcription with the whole
\* lyrics, section-marker labels included; a transcription that equals the
\* content lines word for word has confidence 100 exactly when the section
\* markers add no word to the normalized lyrics, and less otherwise.
C29_ConfidenceCountsMarkers ==
  \A c \in Calls :
    SungAsWritten(c)
      => /\ ResultOf(c).confidence.num <= 100 * ResultOf(c).confidence.den
         /\ ResultOf(c).confidence.num = 100 * ResultOf(c).confidence.den
              <=> WordsOf(lyricsOf[c]) = WordsOf(ContentOf(lyricsOf[c]))

\* '[Verse 1]' and 'Guadalajara' sung as 'Guadalajara.': eleven of the
\* nineteen characters of 'verse 1 guadalajara' match
C29_Witness ==
  \E c \in Calls :
    /\ SungAsWritten(c)
    /\ lyricsOf[c] = join(<<LineVerse1, LineGuadalajara>>, <<"\n">>)
    /\ ResultOf(c).transcription = PhraseExact
    /\ ResultOf(c).confidence.num * 19 = 1100 * ResultOf(c).confidence.den

\* C30: with errorPosition 0, findRollbackPoint uses no marker on a line
\* index greater than 0: it returns the verse or chorus marker of line 0, or
\* line 0 with the default label, and so not what the call without an
\* errorPosition returns when a verse or chorus marker follows line 0.
C30_ZeroIsAnErrorPosition ==
  \A k \in DOMAIN rollback :
    rollback[k].errorPosition = <<0>> =>
      /\ rollback[k].result.line = 0
      /\ rollback[k].result =
           TargetAtLast(rollback[k].lyrics,
                        {i \in MarkerIndexes(rollback[k].lyrics) : i = 0})

====
